---- MODULE Spec2Model ----
(***************************************************************************)
(* Model of the boxercrab binlog event decoder (src/src/events/mod.rs and  *)
(* src/src/utils.rs).                                                      *)
(*                                                                         *)
(* A buffer is a sequence of bytes.  A parser result is one of             *)
(*   Ok(rest, val)   nom's Ok((rest, val))                                 *)
(*   Err(kind)       nom's Err(Err::Error((_, ErrorKind::kind)))           *)
(*   Panic(msg)      the thread panics (unreachable!, assert!, unwrap,     *)
(*                   slice index, arithmetic overflow check)               *)
(* u8 and u16 values are naturals.  u32 and u64 values are held as their   *)
(* base-256 digits, least significant first (4 or 8 digits), because TLC   *)
(* integers end at 2^31-1; the arithmetic on them below keeps the width.   *)
(***************************************************************************)
EXTENDS Integers, Sequences, FiniteSets, TLC

VARIABLES
    overflow_checks,  \* build profile: TRUE = arithmetic overflow panics (debug), FALSE = wraps (release)
    stream,           \* the caller's byte source
    pos,              \* offset in stream of the record the cursor is on
    avail,            \* number of bytes of stream buffered so far
    last,             \* result of the latest call, tag "none" before the first
    prev,             \* offset the latest call started at
    well_formed,      \* the stream is a run of well-formed records (fixed at Init)
    given,            \* the field values the stream's first header was written from
    callee            \* the function the latest call went to, "none" before the first

vars == <<overflow_checks, stream, pos, avail, last, prev, well_formed, given, callee>>

Byte == 0..255

----------------------------------------------------------------------------
(* Parser results *)

Ok(rest, val) == [tag |-> "Ok", rest |-> rest, val |-> val]
Err(kind) == [tag |-> "Err", kind |-> kind]
Panic(msg) == [tag |-> "Panic", msg |-> msg]

Drop(s, n) == SubSeq(s, n + 1, Len(s))
Take(s, n) == SubSeq(s, 1, n)

\* `let x = e;` and then F(x): e is evaluated once
With(e, F(_)) == CHOOSE y \in {F(x) : x \in {e}} : TRUE

\* `let (i, v) = r?;` and then F(i, v): the first failure is the result
Then(r, F(_, _)) == With(r, LAMBDA x : IF x.tag # "Ok" THEN x ELSE F(x.rest, x.val))

----------------------------------------------------------------------------
(* Fixed-width unsigned arithmetic on base-256 digit sequences *)

Pow256 == <<1, 256, 65536, 16777216>>

\* digits of a natural n < 2^31, zero-extended to len digits
NatW(n, len) == [k \in 1..len |-> IF k <= 4 THEN (n \div Pow256[k]) % 256 ELSE 0]

\* the word is below 2^24, so that WNat is a TLC integer
WSmall(w) == \A k \in 4..Len(w) : w[k] = 0

WNat(w) == (IF Len(w) >= 1 THEN w[1] ELSE 0)
         + (IF Len(w) >= 2 THEN 256 * w[2] ELSE 0)
         + (IF Len(w) >= 3 THEN 65536 * w[3] ELSE 0)

\* `as u64` / `as u32`: zero-extend or truncate to len digits
WCast(w, len) == [k \in 1..len |-> IF k <= Len(w) THEN w[k] ELSE 0]

\* the borrows of a - b: digit k of the result is 1 when digits 1..k underflow
RECURSIVE Borrows(_, _, _)
Borrows(a, b, acc) ==
    IF Len(acc) = Len(a) THEN acc
    ELSE LET k == Len(acc) + 1
             in == IF k = 1 THEN 0 ELSE acc[k - 1] IN
         Borrows(a, b, Append(acc, IF a[k] - b[k] - in < 0 THEN 1 ELSE 0))

\* the carries of a + b
RECURSIVE Carries(_, _, _)
Carries(a, b, acc) ==
    IF Len(acc) = Len(a) THEN acc
    ELSE LET k == Len(acc) + 1
             in == IF k = 1 THEN 0 ELSE acc[k - 1] IN
         Carries(a, b, Append(acc, (a[k] + b[k] + in) \div 256))

\* a - b modulo 256^Len(a), and whether it underflowed
WrappingSub(a, b) ==
    With(Borrows(a, b, <<>>), LAMBDA br :
        [val |-> [k \in 1..Len(a) |->
                    (a[k] - b[k] - (IF k = 1 THEN 0 ELSE br[k - 1]) + 256) % 256],
         overflow |-> br[Len(a)] = 1])

\* a + b modulo 256^Len(a), and whether it overflowed
WrappingAdd(a, b) ==
    With(Carries(a, b, <<>>), LAMBDA c :
        [val |-> [k \in 1..Len(a) |->
                    (a[k] + b[k] + (IF k = 1 THEN 0 ELSE c[k - 1])) % 256],
         overflow |-> c[Len(a)] = 1])

\* w / 8
WDiv8(w) == [k \in 1..Len(w) |->
               (w[k] \div 8) + (IF k < Len(w) THEN (w[k + 1] % 8) * 32 ELSE 0)]

\* Rust's `a - b` and `a + b` on unsigned integers: with overflow checks the
\* operation panics on overflow, without them it wraps.  The result is
\* Ok(<<>>, value) or the panic.
Sub(a, b) ==
    With(WrappingSub(a, b), LAMBDA d :
        IF d.overflow /\ overflow_checks
        THEN Panic("attempt to subtract with overflow")
        ELSE Ok(<<>>, d.val))

Add(a, b) ==
    With(WrappingAdd(a, b), LAMBDA d :
        IF d.overflow /\ overflow_checks
        THEN Panic("attempt to add with overflow")
        ELSE Ok(<<>>, d.val))

\* a - ks[1] - ks[2] - ... evaluated left to right, every step checked
RECURSIVE SubChain(_, _)
SubChain(a, ks) ==
    IF Len(ks) = 0 THEN Ok(<<>>, a)
    ELSE Then(Sub(a, ks[1]), LAMBDA i, d : SubChain(d, Tail(ks)))

U32(n) == NatW(n, 4)
U64(n) == NatW(n, 8)

----------------------------------------------------------------------------
(* nom primitives *)

\* take(n) with a count that fits a TLC integer
take(n, input) ==
    IF Len(input) >= n THEN Ok(Drop(input, n), Take(input, n)) ELSE Err("Eof")

\* take(n) with a u32 / u64 count
take_w(n, input) ==
    IF WSmall(n) THEN take(WNat(n), input) ELSE Err("Eof")

le_u8(input) ==
    IF Len(input) >= 1 THEN Ok(Drop(input, 1), input[1]) ELSE Err("Eof")

le_u16(input) ==
    IF Len(input) >= 2 THEN Ok(Drop(input, 2), input[1] + 256 * input[2]) ELSE Err("Eof")

le_u32(input) ==
    IF Len(input) >= 4 THEN Ok(Drop(input, 4), [k \in 1..4 |-> input[k]]) ELSE Err("Eof")

le_u64(input) ==
    IF Len(input) >= 8 THEN Ok(Drop(input, 8), [k \in 1..8 |-> input[k]]) ELSE Err("Eof")

le_i64(input) == le_u64(input)

\* one fixed-width little-endian field of 1, 2, 4 or 8 bytes
le_field(width, input) ==
    IF width = 1 THEN le_u8(input)
    ELSE IF width = 2 THEN le_u16(input)
    ELSE IF width = 4 THEN le_u32(input)
    ELSE le_u64(input)

\* tuple((le_uN, ...)): the fields are read in order, the first failure is returned
RECURSIVE tuple_from(_, _, _)
tuple_from(widths, input, acc) ==
    IF Len(acc) = Len(widths) THEN Ok(input, acc)
    ELSE Then(le_field(widths[Len(acc) + 1], input),
              LAMBDA i, v : tuple_from(widths, i, Append(acc, v)))

tuple(widths, input) == tuple_from(widths, input, <<>>)

----------------------------------------------------------------------------
(* src/src/utils.rs *)

pu32(input) == le_u32(input)

\* lenenc_fd with the slip of reading the three bytes as a u16 and a skipped byte
lenenc_fd_u16(input) ==
    Then(take(1, input), LAMBDA i1, x :
    Then(take(3, i1), LAMBDA i2, s :
    Ok(i2, WCast(<<s[1], s[2]>>, 8))))

\* the 0xfd arm: three bytes, a zero pushed behind them, read as u32, `as u64`
lenenc_fd(input) ==
    Then(take(1, input), LAMBDA i1, x :
    Then(take(3, i1), LAMBDA i2, s :
    With(pu32(s \o <<0>>), LAMBDA num :
    IF num.tag # "Ok" THEN Panic("unwrap") ELSE Ok(i2, WCast(num.val, 8)))))

parse_lenenc_int(input) ==
    IF Len(input) = 0 THEN Panic("index out of bounds")
    ELSE IF input[1] < 251 THEN
        Then(le_u8(input), LAMBDA i, num : Ok(i, U64(num)))
    ELSE IF input[1] \in {251, 252} THEN
        Then(take(1, input), LAMBDA i1, x :
        Then(le_u16(i1), LAMBDA i2, num : Ok(i2, U64(num))))
    ELSE IF input[1] = 253 THEN lenenc_fd(input)
    ELSE IF input[1] = 254 THEN
        Then(take(1, input), LAMBDA i1, x : le_u64(i1))
    ELSE Panic("unreachable")

\* String::from_utf8_lossy never fails; the text is kept as its bytes
parse_lenenc_str(input) ==
    Then(parse_lenenc_int(input), LAMBDA i, str_len : take_w(str_len, i))

----------------------------------------------------------------------------
(* src/src/events/mod.rs: header *)

Bit(f, n) == (f \div (2 ^ n)) % 2 = 1

\* EventFlag with the slip of reading mts_isolate from bit 10
EventFlag_bit10(f) ==
    [in_use                   |-> Bit(f, 0),
     forced_rotate            |-> Bit(f, 1),
     thread_specific          |-> Bit(f, 2),
     suppress_use             |-> Bit(f, 3),
     update_table_map_version |-> Bit(f, 4),
     artificial               |-> Bit(f, 5),
     relay_log                |-> Bit(f, 6),
     ignorable                |-> Bit(f, 7),
     no_filter                |-> Bit(f, 8),
     mts_isolate              |-> Bit(f, 10)]

EventFlag(f) ==
    [in_use                   |-> Bit(f, 0),
     forced_rotate            |-> Bit(f, 1),
     thread_specific          |-> Bit(f, 2),
     suppress_use             |-> Bit(f, 3),
     update_table_map_version |-> Bit(f, 4),
     artificial               |-> Bit(f, 5),
     relay_log                |-> Bit(f, 6),
     ignorable                |-> Bit(f, 7),
     no_filter                |-> Bit(f, 8),
     mts_isolate              |-> Bit(f, 9)]

parse_header(input) ==
    Then(le_u32(input), LAMBDA i1, timestamp :
    Then(le_u8(i1), LAMBDA i2, event_type :
    Then(le_u32(i2), LAMBDA i3, server_id :
    Then(le_u32(i3), LAMBDA i4, event_size :
    Then(le_u32(i4), LAMBDA i5, log_pos :
    Then(le_u16(i5), LAMBDA i6, f :
    Ok(i6,
       [timestamp  |-> timestamp,
        event_type |-> event_type,
        server_id  |-> server_id,
        event_size |-> event_size,
        log_pos    |-> log_pos,
        flags      |-> EventFlag(f)])))))))

check_start(i) ==
    IF Len(i) >= 4 /\ Take(i, 4) = <<254, 98, 105, 110>>
    THEN Ok(Drop(i, 4), Take(i, 4)) ELSE Err("Tag")

----------------------------------------------------------------------------
(* String helpers imported from crate::utils (mod.rs line 3) *)

RECURSIVE NulEnd(_, _)
NulEnd(s, k) == IF k > Len(s) THEN Len(s)
                ELSE IF s[k] = 0 THEN k - 1 ELSE NulEnd(s, k + 1)

\* the text of a byte slice: the bytes before the first NUL
extract_string(s) == Take(s, NulEnd(s, 1))

\* the text of the first n bytes of a slice
extract_n_string(s, n) == Take(s, IF n <= Len(s) THEN n ELSE Len(s))

----------------------------------------------------------------------------
(* src/src/events/mod.rs: body decoders without nested sub-parsers *)

pu64(input) == le_u64(input)

parse_unknown(input, header) ==
    Then(le_u32(input), LAMBDA i, checksum :
    Ok(i, [type |-> "Unknown", header |-> header, checksum |-> checksum]))

parse_stop(input, header) == Ok(input, [type |-> "Stop", header |-> header])

parse_rotate(input, header) ==
    Then(le_u64(input), LAMBDA i, position :
    Then(SubChain(header.event_size, <<U32(19), U32(8)>>), LAMBDA z, str_len :
    Then(take_w(str_len, i), LAMBDA i2, s :
    Ok(i2, [type |-> "Rotate", header |-> header, position |-> position,
            next_binlog |-> extract_n_string(i, WNat(str_len))]))))

parse_intvar(input, header) ==
    Then(le_u8(input), LAMBDA i, t :
    IF t \notin {0, 1, 2} THEN Panic("unreachable") ELSE
    Then(le_u64(i), LAMBDA i2, value :
    Ok(i2, [type |-> "IntVar", header |-> header,
            e_type |-> IF t = 0 THEN "InvalidIntEvent"
                       ELSE IF t = 1 THEN "LastInsertIdEvent" ELSE "InsertIdEvent",
            value |-> value])))

parse_slave(input, header) == Ok(input, [type |-> "Slave", header |-> header])

parse_file_data(input, header) ==
    Then(le_u32(input), LAMBDA i, file_id :
    Then(SubChain(header.event_size, <<U32(19), U32(4)>>), LAMBDA z, n :
    Then(take_w(n, i), LAMBDA i2, s :
    Ok(i2, <<file_id, extract_string(s)>>))))

parse_create_file(input, header) ==
    Then(parse_file_data(input, header), LAMBDA i, v :
    Ok(i, [type |-> "CreateFile", header |-> header,
           file_id |-> v[1], block_data |-> v[2]]))

parse_append_file(input, header) ==
    Then(parse_file_data(input, header), LAMBDA i, v :
    Ok(i, [type |-> "AppendFile", header |-> header,
           file_id |-> v[1], block_data |-> v[2]]))

parse_exec_load(input, header) ==
    Then(le_u16(input), LAMBDA i, file_id :
    Ok(i, [type |-> "ExecLoad", header |-> header, file_id |-> file_id]))

parse_delete_file(input, header) ==
    Then(le_u16(input), LAMBDA i, file_id :
    Ok(i, [type |-> "DeleteFile", header |-> header, file_id |-> file_id]))

parse_rand(input, header) ==
    Then(tuple(<<8, 8>>, input), LAMBDA i, v :
    Ok(i, [type |-> "Rand", header |-> header, seed1 |-> v[1], seed2 |-> v[2]]))

parse_user_var(input, header) ==
    Then(SubChain(header.event_size, <<U32(19)>>), LAMBDA z, n :
    Then(take_w(n, input), LAMBDA i, s :
    Ok(i, [type |-> "UserVar", header |-> header, unknown |-> s])))

parse_format_desc(input, header) ==
    Then(le_u16(input), LAMBDA i1, binlog_version :
    Then(take(50, i1), LAMBDA i2, version :
    Then(le_u32(i2), LAMBDA i3, create_timestamp :
    Then(le_u8(i3), LAMBDA i4, event_header_length :
    Then(SubChain(header.event_size, <<U32(19), U32(2 + 50 + 4 + 1), U32(1), U32(4)>>),
         LAMBDA z, num :
    Then(take_w(num, i4), LAMBDA i5, supported_types :
    Then(le_u8(i5), LAMBDA i6, checksum_alg :
    Then(le_u32(i6), LAMBDA i7, checksum :
    Ok(i7, [type |-> "FormatDesc", header |-> header,
            binlog_version |-> binlog_version,
            mysql_server_version |-> extract_string(version),
            create_timestamp |-> create_timestamp,
            event_header_length |-> event_header_length,
            supported_types |-> supported_types,
            checksum_alg |-> checksum_alg,
            checksum |-> checksum])))))))))

parse_xid(input, header) ==
    Then(tuple(<<8, 4>>, input), LAMBDA i, v :
    Ok(i, [type |-> "XID", header |-> header, xid |-> v[1], checksum |-> v[2]]))

parse_begin_load_query(input, header) ==
    Then(parse_file_data(input, header), LAMBDA i, v :
    Ok(i, [type |-> "BeginLoadQuery", header |-> header,
           file_id |-> v[1], block_data |-> v[2]]))

parse_execute_load_query(input, header) ==
    Then(tuple(<<4, 4, 1, 2, 2, 4, 4, 4>>, input), LAMBDA i, v :
    Then(le_u8(i), LAMBDA i2, flags :
    IF flags \notin {0, 1, 2} THEN Panic("unreachable") ELSE
    Ok(i2, [type |-> "ExecuteLoadQueryEvent", header |-> header,
            thread_id |-> v[1], execution_time |-> v[2],
            schema_length |-> v[3], error_code |-> v[4],
            status_vars_length |-> v[5], file_id |-> v[6],
            start_pos |-> v[7], end_pos |-> v[8],
            dup_handling_flags |-> IF flags = 0 THEN "Error"
                                   ELSE IF flags = 1 THEN "Ignore" ELSE "Replace"])))

parse_incident(input, header) ==
    Then(le_u16(input), LAMBDA i, t :
    IF t \notin {0, 1} THEN Panic("unreachable") ELSE
    Then(le_u8(i), LAMBDA i2, message_length :
    Then(take(message_length, i2), LAMBDA i3, s :
    Ok(i3, [type |-> "Incident", header |-> header,
            d_type |-> IF t = 0 THEN "None" ELSE "LostEvents",
            message_length |-> message_length,
            message |-> extract_n_string(s, message_length)]))))

parse_heartbeat(input, header) == Ok(input, [type |-> "Heartbeat", header |-> header])

parse_row_query(input, header) ==
    Then(le_u8(input), LAMBDA i, length :
    Then(take(length, i), LAMBDA i2, s :
    Ok(i2, [type |-> "RowQuery", header |-> header, length |-> length,
            query_text |-> extract_n_string(s, length)])))

parse_anonymous_gtid(input, header) ==
    Then(le_u8(input), LAMBDA i1, b :
    Then(le_u32(i1), LAMBDA i2, encoded_sig_length :
    Then(le_u32(i2), LAMBDA i3, encoded_gno_length :
    Then(SubChain(header.event_size, <<U32(19), U32(1 + 4 * 2 + 8 * 2 + 4)>>),
         LAMBDA z, n :
    Then(take_w(n, i3), LAMBDA i4, unknown :
    Then(le_i64(i4), LAMBDA i5, last_committed :
    Then(le_i64(i5), LAMBDA i6, sequence_number :
    Then(le_u32(i6), LAMBDA i7, checksum :
    Ok(i7, [type |-> "AnonymousGtid", header |-> header,
            rbr_only |-> (b = 0),
            encoded_sig_length |-> encoded_sig_length,
            encoded_gno_length |-> encoded_gno_length,
            unknown |-> unknown,
            last_committed |-> last_committed,
            sequence_number |-> sequence_number,
            checksum |-> checksum])))))))))

parse_previous_gtids(input, header) ==
    Then(SubChain(header.event_size, <<U32(19), U32(4), U32(4)>>), LAMBDA z, n :
    Then(take_w(n, input), LAMBDA i1, gtid_sets :
    Then(le_u32(i1), LAMBDA i2, buf_size :
    Then(le_u32(i2), LAMBDA i3, checksum :
    Ok(i3, [type |-> "PreviousGtids", header |-> header,
            gtid_sets |-> gtid_sets, buf_size |-> buf_size, checksum |-> checksum])))))

----------------------------------------------------------------------------
(* Collaborators of mod.rs whose source is outside src/: crate::utils helpers *)
(* (line 3), the query and rows submodules (lines 14-15), mysql::ColumnTypes *)

\* string_fixed: a 1-byte length, then that many bytes as text
string_fixed(input) ==
    Then(le_u8(input), LAMBDA i, len :
    Then(take(len, i), LAMBDA i2, s : Ok(i2, <<len, s>>)))

\* lenenc_int: the length-encoded integer with the number of bytes it took
lenenc_int(input) ==
    Then(parse_lenenc_int(input), LAMBDA i, v : Ok(i, <<Len(input) - Len(i), v>>))

\* take_till_term_string: the bytes before the next NUL, and the NUL is consumed
take_till_term_string(input) ==
    With(NulEnd(input, 1), LAMBDA n :
    IF n >= Len(input) THEN Err("Eof") ELSE Ok(Drop(input, n + 1), Take(input, n)))

\* ColumnTypes::from_u8: the catalog's type for a code; the code stands for it
ColumnTypes_from_u8(t) == t

\* many_m_n(n, n, take_till_term_string)
RECURSIVE many_n_term_strings_from(_, _, _)
many_n_term_strings_from(n, input, acc) ==
    IF Len(acc) = n THEN Ok(input, acc)
    ELSE With(take_till_term_string(input), LAMBDA r :
         IF r.tag # "Ok" THEN Err("ManyMN")
         ELSE many_n_term_strings_from(n, r.rest, Append(acc, r.val)))

many_n_term_strings(n, input) == many_n_term_strings_from(n, input, <<>>)

\* status-variable key codes, as they stand in the query fixture
Q_FLAGS2_CODE == 0
Q_SQL_MODE_CODE == 1
Q_CHARSET_CODE == 4
Q_CATALOG_NZ_CODE == 6
Q_UPDATED_DB_NAMES == 12

\* query::parse_status_var: a 1-byte key code, then the payload of that key
parse_status_var(input) ==
    Then(le_u8(input), LAMBDA i, k :
    IF k = Q_FLAGS2_CODE THEN
        Then(le_u32(i), LAMBDA i2, v : Ok(i2, [key |-> "Q_FLAGS2_CODE", val |-> v]))
    ELSE IF k = Q_SQL_MODE_CODE THEN
        Then(le_u64(i), LAMBDA i2, v : Ok(i2, [key |-> "Q_SQL_MODE_CODE", val |-> v]))
    ELSE IF k = Q_CHARSET_CODE THEN
        Then(tuple(<<2, 2, 2>>, i), LAMBDA i2, v : Ok(i2, [key |-> "Q_CHARSET_CODE", val |-> v]))
    ELSE IF k = Q_CATALOG_NZ_CODE THEN
        Then(string_fixed(i), LAMBDA i2, v : Ok(i2, [key |-> "Q_CATALOG_NZ_CODE", val |-> v[2]]))
    ELSE IF k = Q_UPDATED_DB_NAMES THEN
        Then(le_u8(i), LAMBDA i2, c :
        Then(many_n_term_strings(c, i2), LAMBDA i3, v :
        Ok(i3, [key |-> "Q_UPDATED_DB_NAMES", val |-> v])))
    ELSE Err("Switch"))

\* many0(query::parse_status_var): repeats until the sub-parser fails
RECURSIVE many0_status_var_from(_, _)
many0_status_var_from(input, acc) ==
    With(parse_status_var(input), LAMBDA r :
    IF r.tag # "Ok" THEN Ok(input, acc)
    ELSE many0_status_var_from(r.rest, Append(acc, r.val)))

many0_status_var(input) == many0_status_var_from(input, <<>>)

\* rows::parse_extra_data: one tagged record, a 1-byte tag and a
\* length-prefixed payload
parse_extra_data(input) ==
    Then(le_u8(input), LAMBDA i, d_type :
    Then(string_fixed(i), LAMBDA i2, v :
    Ok(i2, [d_type |-> d_type, data |-> v[2]])))

\* many0(rows::parse_extra_data)
RECURSIVE many0_extra_data_from(_, _)
many0_extra_data_from(input, acc) ==
    With(parse_extra_data(input), LAMBDA r :
    IF r.tag # "Ok" THEN Ok(input, acc)
    ELSE many0_extra_data_from(r.rest, Append(acc, r.val)))

\* many1(rows::parse_extra_data)
many1_extra_data(input) ==
    With(many0_extra_data_from(input, <<>>), LAMBDA r :
    IF r.val = <<>> THEN Err("Many1") ELSE r)

----------------------------------------------------------------------------
(* String::from_utf8 of the standard library: is the slice well-formed UTF-8 *)

Cont(b) == b \in 128..191

RECURSIVE ValidUtf8(_)
ValidUtf8(s) ==
    IF s = <<>> THEN TRUE
    ELSE LET b == s[1] n == Len(s) IN
    IF b < 128 THEN ValidUtf8(Drop(s, 1))
    ELSE IF b \in 194..223 THEN n >= 2 /\ Cont(s[2]) /\ ValidUtf8(Drop(s, 2))
    ELSE IF b \in 224..239 THEN
        /\ n >= 3
        /\ IF b = 224 THEN s[2] \in 160..191
           ELSE IF b = 237 THEN s[2] \in 128..159 ELSE Cont(s[2])
        /\ Cont(s[3])
        /\ ValidUtf8(Drop(s, 3))
    ELSE IF b \in 240..244 THEN
        /\ n >= 4
        /\ IF b = 240 THEN s[2] \in 144..191
           ELSE IF b = 244 THEN s[2] \in 128..143 ELSE Cont(s[2])
        /\ Cont(s[3]) /\ Cont(s[4])
        /\ ValidUtf8(Drop(s, 4))
    ELSE FALSE

----------------------------------------------------------------------------
(* src/src/events/mod.rs: query, load family, table map, row events *)

\* parse_query with the slip of leaving the separator byte out of the text length
parse_query_no_separator(input, header) ==
    Then(tuple(<<4, 4, 1, 2, 2>>, input), LAMBDA i1, v :
    Then(take(v[5], i1), LAMBDA i2, raw_vars :
    With(many0_status_var(raw_vars), LAMBDA sv :
    IF Len(sv.rest) # 0 THEN Panic("assertion failed") ELSE
    Then(take(v[3], i2), LAMBDA i3, schema :
    IF ~ValidUtf8(schema) THEN Panic("unwrap") ELSE
    Then(take(1, i3), LAMBDA i4, x :
    Then(SubChain(header.event_size,
                  <<U32(19), U32(4), U32(4), U32(1), U32(2), U32(2),
                    U32(v[5]), U32(v[3]), U32(4)>>), LAMBDA z, n :
    Then(take_w(n, i4), LAMBDA i5, query :
    Then(le_u32(i5), LAMBDA i6, checksum :
    Ok(i6, [type |-> "Query", header |-> header,
            slave_proxy_id |-> v[1], execution_time |-> v[2],
            schema_length |-> v[3], error_code |-> v[4],
            status_vars_length |-> v[5],
            status_vars |-> sv.val,
            schema |-> schema,
            query |-> extract_string(query),
            checksum |-> checksum])))))))))

parse_query(input, header) ==
    Then(tuple(<<4, 4, 1, 2, 2>>, input), LAMBDA i1, v :
    Then(take(v[5], i1), LAMBDA i2, raw_vars :
    With(many0_status_var(raw_vars), LAMBDA sv :
    IF Len(sv.rest) # 0 THEN Panic("assertion failed") ELSE
    Then(take(v[3], i2), LAMBDA i3, schema :
    IF ~ValidUtf8(schema) THEN Panic("unwrap") ELSE
    Then(take(1, i3), LAMBDA i4, x :
    Then(SubChain(header.event_size,
                  <<U32(19), U32(4), U32(4), U32(1), U32(2), U32(2),
                    U32(v[5]), U32(v[3]), U32(1), U32(4)>>), LAMBDA z, n :
    Then(take_w(n, i4), LAMBDA i5, query :
    Then(le_u32(i5), LAMBDA i6, checksum :
    Ok(i6, [type |-> "Query", header |-> header,
            slave_proxy_id |-> v[1], execution_time |-> v[2],
            schema_length |-> v[3], error_code |-> v[4],
            status_vars_length |-> v[5],
            status_vars |-> sv.val,
            schema |-> schema,
            query |-> extract_string(query),
            checksum |-> checksum])))))))))

\* an addition on u8: checked or wrapping as the build has it
add_u8(a, b) ==
    IF a + b > 255 /\ overflow_checks THEN Panic("attempt to add with overflow")
    ELSE Ok(<<>>, (a + b) % 256)

\* field_name_lengths.iter().sum::<u8>(): the additions are 8 bits wide
RECURSIVE sum_u8_from(_, _, _)
sum_u8_from(lens, k, acc) ==
    IF k > Len(lens) THEN Ok(<<>>, acc)
    ELSE Then(add_u8(acc, lens[k]), LAMBDA z, s : sum_u8_from(lens, k + 1, s))

sum_u8(lens) == sum_u8_from(lens, 1, 0)

\* `len + 1` on a u8
add1_u8(len) == add_u8(len, 1)

\* field_name_lengths.iter().sum::<u8>() as u64 + num_fields as u64
total_len_u64(field_name_lengths, num_fields) ==
    Then(sum_u8(field_name_lengths), LAMBDA z1, sum :
    Add(U64(sum), WCast(num_fields, 8)))

extract_many_fields(input, header, num_fields, table_name_length, schema_length) ==
    Then(take_w(num_fields, input), LAMBDA i1, field_name_lengths :
    Then(total_len_u64(field_name_lengths, num_fields), LAMBDA z2, total_len :
    Then(take_w(total_len, i1), LAMBDA i2, raw_field_names :
    \* the names are parsed out of raw_field_names and `i` is what is left of it
    Then(many_n_term_strings(WNat(num_fields), raw_field_names), LAMBDA i3, field_names :
    Then(add1_u8(table_name_length), LAMBDA z3, tl :
    Then(take(tl, i3), LAMBDA i4, table_name :
    Then(add1_u8(schema_length), LAMBDA z4, sl :
    Then(take(sl, i4), LAMBDA i5, schema_name :
    Then(SubChain(WCast(header.event_size, 8),
                  <<U64(19), U64(25), WCast(num_fields, 8), total_len,
                    U64(table_name_length), U64(schema_length), U64(3), U64(4)>>),
         LAMBDA z5, n :
    Then(take_w(n, i5), LAMBDA i6, file_name :
    Ok(i6, <<field_name_lengths, field_names, extract_string(table_name),
             extract_string(schema_name), extract_string(file_name)>>)))))))))))

OptFlags_load(flags) ==
    [dump_file    |-> (flags \div 1) % 2 = 1,
     opt_enclosed |-> (flags \div 2) % 1 = 1,
     replace      |-> (flags \div 4) % 2 = 1,
     ignore       |-> (flags \div 8) % 2 = 1]

OptFlags_new_load(flags) ==
    [dump_file    |-> (flags \div 1) % 2 = 1,
     opt_enclosed |-> (flags \div 2) % 2 = 1,
     replace      |-> (flags \div 4) % 2 = 1,
     ignore       |-> (flags \div 8) % 2 = 1]

EmptyFlags(flags) ==
    [field_term_empty |-> Bit(flags, 0),
     enclosed_empty   |-> Bit(flags, 1),
     line_term_empty  |-> Bit(flags, 2),
     line_start_empty |-> Bit(flags, 3),
     escape_empty     |-> Bit(flags, 4)]

\* map(le_u8, |flags| OptFlags {..}) as parse_load and parse_new_load have it
load_opt_flags(input) ==
    Then(le_u8(input), LAMBDA i, flags : Ok(i, OptFlags_load(flags)))

new_load_opt_flags(input) ==
    Then(le_u8(input), LAMBDA i, flags : Ok(i, OptFlags_new_load(flags)))

parse_load(input, header) ==
    Then(tuple(<<4, 4, 4, 1, 1, 4, 1, 1, 1, 1, 1>>, input), LAMBDA i1, v :
    Then(load_opt_flags(i1), LAMBDA i2, opt_flags :
    Then(le_u8(i2), LAMBDA i3, empty :
    Then(extract_many_fields(i3, header, v[6], v[4], v[5]), LAMBDA i4, f :
    Then(le_u32(i4), LAMBDA i5, checksum :
    Ok(i5, [type |-> "Load", header |-> header,
            thread_id |-> v[1], execution_time |-> v[2],
            skip_lines |-> v[3], table_name_length |-> v[4],
            schema_length |-> v[5], num_fields |-> v[6],
            field_term |-> v[7], enclosed_by |-> v[8],
            line_term |-> v[9], line_start |-> v[10],
            escaped_by |-> v[11],
            opt_flags |-> opt_flags,
            empty_flags |-> EmptyFlags(empty),
            field_name_lengths |-> f[1], field_names |-> f[2],
            table_name |-> f[3], schema_name |-> f[4],
            file_name |-> f[5],
            checksum |-> checksum]))))))

extract_from_prev(input) ==
    Then(le_u8(input), LAMBDA i, len :
    Then(take(len, i), LAMBDA i2, s :
    Ok(i2, <<len, extract_n_string(s, len)>>)))

\* n extract_from_prev calls in a row
RECURSIVE extract_from_prev_from(_, _, _)
extract_from_prev_from(n, input, acc) ==
    IF Len(acc) = n THEN Ok(input, acc)
    ELSE Then(extract_from_prev(input),
              LAMBDA i, v : extract_from_prev_from(n, i, Append(acc, v)))

extract_from_prev_n(n, input) == extract_from_prev_from(n, input, <<>>)

parse_new_load(input, header) ==
    Then(tuple(<<4, 4, 4, 1, 1, 4>>, input), LAMBDA i1, v :
    Then(extract_from_prev_n(5, i1), LAMBDA i2, p :
    Then(new_load_opt_flags(i2), LAMBDA i3, opt_flags :
    Then(extract_many_fields(i3, header, v[6], v[4], v[5]), LAMBDA i4, f :
    Then(le_u32(i4), LAMBDA i5, checksum :
    Ok(i5, [type |-> "NewLoad", header |-> header,
            thread_id |-> v[1], execution_time |-> v[2],
            skip_lines |-> v[3], table_name_length |-> v[4],
            schema_length |-> v[5], num_fields |-> v[6],
            field_term_length |-> p[1][1], field_term |-> p[1][2],
            enclosed_by_length |-> p[2][1], enclosed_by |-> p[2][2],
            line_term_length |-> p[3][1], line_term |-> p[3][2],
            line_start_length |-> p[4][1], line_start |-> p[4][2],
            escaped_by_length |-> p[5][1], escaped_by |-> p[5][2],
            opt_flags |-> opt_flags,
            field_name_lengths |-> f[1], field_names |-> f[2],
            table_name |-> f[3], schema_name |-> f[4],
            file_name |-> f[5],
            checksum |-> checksum]))))))

\* the table id with the slip of putting the two zero bytes in front
table_id_u64_zeros_first(input) ==
    Then(take(6, input), LAMBDA i, id_raw :
    With(pu64(<<0, 0>> \o id_raw), LAMBDA v :
    IF v.tag # "Ok" THEN Panic("unwrap") ELSE Ok(i, v.val)))

\* the 6-byte table id: two zero bytes are appended and the eight are read as u64
table_id_u64(input) ==
    Then(take(6, input), LAMBDA i, id_raw :
    With(pu64(id_raw \o <<0, 0>>), LAMBDA v :
    IF v.tag # "Ok" THEN Panic("unwrap") ELSE Ok(i, v.val)))

\* mask_len with the slip of rounding down: column_count / 8
mask_len_u64_floor(column_count) == Ok(<<>>, WDiv8(column_count))

\* (column_count + 7) / 8 on a u64
mask_len_u64(column_count) ==
    Then(Add(column_count, U64(7)), LAMBDA z, a : Ok(<<>>, WDiv8(a)))

parse_table_map(input, header) ==
    Then(table_id_u64(input), LAMBDA i1, table_id :
    Then(le_u16(i1), LAMBDA i2, flags :
    Then(string_fixed(i2), LAMBDA i3, schema :
    Then(le_u8(i3), LAMBDA i4, term1 :
    IF term1 # 0 THEN Panic("assertion failed") ELSE
    Then(string_fixed(i4), LAMBDA i5, table_name :
    Then(le_u8(i5), LAMBDA i6, term2 :
    IF term2 # 0 THEN Panic("assertion failed") ELSE
    Then(lenenc_int(i6), LAMBDA i7, cc :
    Then(take_w(cc[2], i7), LAMBDA i8, columns_type :
    Then(lenenc_int(i8), LAMBDA i9, mc :
    Then(take_w(mc[2], i9), LAMBDA i10, column_meta_def :
    Then(mask_len_u64(cc[2]), LAMBDA z, mask_len :
    Then(take_w(mask_len, i10), LAMBDA i11, null_bits :
    Then(le_u32(i11), LAMBDA i12, checksum :
    Ok(i12, [type |-> "TableMap", header |-> header,
             table_id |-> table_id, flags |-> flags,
             schema_length |-> schema[1], schema |-> schema[2],
             table_name_length |-> table_name[1], table_name |-> table_name[2],
             column_count |-> cc[2],
             columns_type |-> [k \in 1..Len(columns_type) |->
                                 ColumnTypes_from_u8(columns_type[k])],
             column_meta_def |-> column_meta_def,
             null_bits |-> null_bits,
             checksum |-> checksum]))))))))))))))

\* Rows::Flags with has_columns read in direct polarity
rows_Flags_direct_columns(flag) ==
    [end_of_stmt        |-> (flag \div 1) % 2 = 1,
     foreign_key_checks |-> (flag \div 2) % 2 = 0,
     unique_key_checks  |-> (flag \div 4) % 2 = 0,
     has_columns        |-> (flag \div 8) % 2 = 1]

rows_Flags(flag) ==
    [end_of_stmt        |-> (flag \div 1) % 2 = 1,
     foreign_key_checks |-> (flag \div 2) % 2 = 0,
     unique_key_checks  |-> (flag \div 4) % 2 = 0,
     has_columns        |-> (flag \div 8) % 2 = 0]

parse_half_row(input) ==
    Then(table_id_u64(input), LAMBDA i1, table_id :
    Then(le_u16(i1), LAMBDA i2, flag :
    Then(le_u16(i2), LAMBDA i3, extra_data_len :
    IF ~(extra_data_len >= 2) THEN Panic("assertion failed") ELSE
    Then(IF extra_data_len = 2 THEN Ok(i3, <<>>) ELSE many1_extra_data(i3),
         LAMBDA i4, extra_data :
    Then(lenenc_int(i4), LAMBDA i5, cc :
    Ok(i5, [table_id |-> table_id, flags |-> rows_Flags(flag),
            extra_data_len |-> extra_data_len, extra_data |-> extra_data,
            encode_len |-> cc[1], column_count |-> cc[2]]))))))

\* w * 2 on a u32
Mul2(w) ==
    With(WrappingAdd(w, w), LAMBDA d :
    IF d.overflow /\ overflow_checks THEN Panic("attempt to multiply with overflow")
    ELSE Ok(<<>>, d.val))

\* (column_count as u32 + 7) / 8, times 2 when there are two images
mask_len_u32(column_count, images) ==
    Then(Add(WCast(column_count, 4), U32(7)), LAMBDA z, a :
    IF images = 1 THEN Ok(<<>>, WDiv8(a)) ELSE Mul2(WDiv8(a)))

\* the length of the row image: event_size - 19 - 6 - 2 - 2 - (extra_data_len as u32 - 2)
\*   - encode_len as u32 - ((column_count as u32 + 7) / 8) [* 2] - 4
rows_len(header, half, images) ==
    Then(SubChain(header.event_size, <<U32(19), U32(6), U32(2), U32(2)>>), LAMBDA z1, s1 :
    Then(Sub(U32(half.extra_data_len), U32(2)), LAMBDA z2, e :
    Then(SubChain(s1, <<e, U32(half.encode_len)>>), LAMBDA z3, s2 :
    Then(mask_len_u32(half.column_count, images), LAMBDA z4, m :
    SubChain(s2, <<m, U32(4)>>)))))

\* the part the three row decoders share after parse_half_row: `images`
\* presence bitmaps, the row image and the checksum
rows_tail(input, header, half, images) ==
    Then(mask_len_u64(half.column_count), LAMBDA z1, ml :
    Then(take_w(ml, input), LAMBDA i1, bits1 :
    Then(IF images = 2
         THEN Then(mask_len_u64(half.column_count), LAMBDA z2, ml2 : take_w(ml2, i1))
         ELSE Ok(i1, <<>>), LAMBDA i2, bits2 :
    Then(rows_len(header, half, images), LAMBDA z3, n :
    Then(take_w(n, i2), LAMBDA i3, rows :
    Then(le_u32(i3), LAMBDA i4, checksum :
    Ok(i4, [bits1 |-> bits1, bits2 |-> bits2, rows |-> rows, checksum |-> checksum])))))))

parse_write_rows_v2(input, header) ==
    Then(parse_half_row(input), LAMBDA i, h :
    Then(rows_tail(i, header, h, 1), LAMBDA i2, t :
    Ok(i2, [type |-> "WriteRowsV2", header |-> header,
            table_id |-> h.table_id, flags |-> h.flags,
            extra_data_len |-> h.extra_data_len, extra_data |-> h.extra_data,
            column_count |-> h.column_count,
            inserted_image_bits |-> t.bits1,
            rows |-> t.rows, checksum |-> t.checksum])))

parse_delete_rows_v2(input, header) ==
    Then(parse_half_row(input), LAMBDA i, h :
    Then(rows_tail(i, header, h, 1), LAMBDA i2, t :
    Ok(i2, [type |-> "DeleteRowsV2", header |-> header,
            table_id |-> h.table_id, flags |-> h.flags,
            extra_data_len |-> h.extra_data_len, extra_data |-> h.extra_data,
            column_count |-> h.column_count,
            deleted_image_bits |-> t.bits1,
            rows |-> t.rows, checksum |-> t.checksum])))

parse_update_rows_v2(input, header) ==
    Then(parse_half_row(input), LAMBDA i, h :
    Then(rows_tail(i, header, h, 2), LAMBDA i2, t :
    Ok(i2, [type |-> "UpdateRowsV2", header |-> header,
            table_id |-> h.table_id, flags |-> h.flags,
            extra_data_len |-> h.extra_data_len, extra_data |-> h.extra_data,
            column_count |-> h.column_count,
            before_image_bits |-> t.bits1, after_image_bits |-> t.bits2,
            rows |-> t.rows, checksum |-> t.checksum])))

----------------------------------------------------------------------------
(* src/src/events/mod.rs: Event::parse *)

Event_dispatch(input, header) ==
    With(header.event_type, LAMBDA t :
    CASE t = 0  -> parse_unknown(input, header)
      [] t = 2  -> parse_query(input, header)
      [] t = 3  -> parse_stop(input, header)
      [] t = 4  -> parse_rotate(input, header)
      [] t = 5  -> parse_intvar(input, header)
      [] t = 6  -> parse_load(input, header)
      [] t = 7  -> parse_slave(input, header)
      [] t = 8  -> parse_create_file(input, header)
      [] t = 9  -> parse_append_file(input, header)
      [] t = 10 -> parse_exec_load(input, header)
      [] t = 11 -> parse_delete_file(input, header)
      [] t = 12 -> parse_new_load(input, header)
      [] t = 13 -> parse_rand(input, header)
      [] t = 14 -> parse_user_var(input, header)
      [] t = 15 -> parse_format_desc(input, header)
      [] t = 16 -> parse_xid(input, header)
      [] t = 17 -> parse_begin_load_query(input, header)
      [] t = 18 -> parse_execute_load_query(input, header)
      [] t = 19 -> parse_table_map(input, header)
      [] t = 26 -> parse_incident(input, header)
      [] t = 27 -> parse_heartbeat(input, header)
      [] t = 29 -> parse_row_query(input, header)
      [] t \in 20..25 -> Panic("unreachable")
      [] t = 30 -> parse_write_rows_v2(input, header)
      [] t = 31 -> parse_update_rows_v2(input, header)
      [] t = 32 -> parse_delete_rows_v2(input, header)
      [] t = 34 -> parse_anonymous_gtid(input, header)
      [] t = 35 -> parse_previous_gtids(input, header)
      [] OTHER  -> Panic("unreachable"))

Event_parse(input) ==
    Then(parse_header(input), LAMBDA i, header : Event_dispatch(i, header))

----------------------------------------------------------------------------
(* Input streams: records as a MySQL server writes them, 19-byte header, body *)
(* and 4-byte checksum trailer, and damaged variants of them                  *)

MaxPayload == 2      \* longest variable-length text / opaque field in a record
MaxRecords == 2      \* records in a stream
MaxTail == 10        \* bytes following the first byte of a length-encoded integer

Cks == <<188, 120, 235, 134>>

\* n bytes of text: "a", "ab", ...
P(n) == [k \in 1..n |-> 96 + k]

NoFields == [ts |-> 0, type |-> 0, sid |-> 0, size |-> 0, log_pos |-> 0, flagbits |-> {}]

RECURSIVE FlagWord(_)
FlagWord(bits) ==
    IF bits = {} THEN 0
    ELSE LET b == CHOOSE x \in bits : TRUE IN 2 ^ b + FlagWord(bits \ {b})

\* the 19 header bytes for the field values f
HeaderBytes(f) ==
    U32(f.ts) \o <<f.type>> \o U32(f.sid) \o U32(f.size) \o U32(f.log_pos)
    \o <<FlagWord(f.flagbits) % 256, FlagWord(f.flagbits) \div 256>>

Fields(type, size) ==
    [ts |-> 1593679068, type |-> type, sid |-> 123, size |-> size,
     log_pos |-> 839, flagbits |-> {}]

\* a record whose header declares the size `size`
RecSized(type, size, body) == HeaderBytes(Fields(type, size)) \o body
\* a record whose header declares its true size
Rec(type, body) == RecSized(type, 19 + Len(body), body)

StatusVarRegions ==
    { <<>>,
      <<0, 0, 0, 0, 0>>,
      <<4, 33, 0, 33, 0, 224, 0>>,
      <<6, 3, 115, 116, 100, 12, 1, 116, 0>> }

QueryBody(sv, schema, text) ==
    <<3, 0, 0, 0, 0, 0, 0, 0>> \o <<Len(schema)>> \o <<0, 0>> \o <<Len(sv), 0>>
    \o sv \o schema \o <<0>> \o text \o Cks

LoadFixed == <<3, 0, 0, 0, 0, 0, 0, 0, 1, 0, 0, 0>>

\* one field "a", table "t", schema "s", file name P(n)
LoadBody(n) ==
    LoadFixed \o <<1, 1>> \o <<1, 0, 0, 0>> \o <<44, 34, 10, 0, 92>> \o <<2>> \o <<0>>
    \o <<1>> \o <<97, 0>> \o <<116, 0>> \o <<115, 0>> \o P(n) \o Cks

NewLoadBody(n) ==
    LoadFixed \o <<1, 1>> \o <<1, 0, 0, 0>>
    \o <<1, 44>> \o <<1, 34>> \o <<1, 10>> \o <<0>> \o <<1, 92>> \o <<2>>
    \o <<1>> \o <<97, 0>> \o <<116, 0>> \o <<115, 0>> \o P(n) \o Cks

FormatDescBody(n) ==
    <<4, 0>> \o [k \in 1..50 |-> IF k <= 3 THEN 52 + k ELSE 0] \o <<220, 156, 253, 94>>
    \o <<19>> \o P(n) \o <<1>> \o Cks

\* the length-encoded integer n < 65536 in its shortest encoding
LenencOf(n) == IF n < 251 THEN <<n>> ELSE <<252, n % 256, n \div 256>>

\* cols columns, no metadata
TableMapBodyWith(id, cols) ==
    id \o <<1, 0>> \o <<1, 116, 0>> \o <<1, 117, 0>>
    \o LenencOf(cols) \o [k \in 1..cols |-> 3] \o <<0>>
    \o [k \in 1..((cols + 7) \div 8) |-> 0] \o Cks

TableMapBody(cols) == TableMapBodyWith(<<109, 0, 0, 0, 0, 0>>, cols)

RowsBody(cols, images, n) ==
    <<109, 0, 0, 0, 0, 0>> \o <<1, 0>> \o <<2, 0>> \o <<cols>>
    \o [k \in 1..(images * ((cols + 7) \div 8)) |-> 255] \o P(n) \o Cks

\* the shared prefix of a rows event: table id, flags word, extra_data_len
\* (which counts itself), the extra-data records and the column count
HalfRowBytes(id, flagword, extra, cols) ==
    id \o <<flagword % 256, flagword \div 256>>
    \o <<(Len(extra) + 2) % 256, (Len(extra) + 2) \div 256>> \o extra \o LenencOf(cols)

\* a rows body with extra-data records: `images` bitmaps of the bytes `bits`
\* each, a row image of n bytes and the checksum
RowsBodyWith(id, flagword, extra, cols, bits, images, n) ==
    HalfRowBytes(id, flagword, extra, cols)
    \o (IF images = 2 THEN bits \o bits ELSE bits) \o P(n) \o Cks

TableIds == {<<109, 0, 0, 0, 0, 0>>, <<1, 2, 3, 4, 5, 6>>}

\* extra-data chains: none, one record (tag 0, one byte of payload), two records
ExtraChains == {<<>>, <<0, 1, 7>>, <<0, 1, 7, 0, 0>>}

\* the type codes Event::parse has a decoder for
SupportedTypes == {0} \cup (2..19) \cup {26, 27, 29, 30, 31, 32, 34, 35}

\* well-formed bodies (checksum trailer included) of a supported type
Bodies(t) ==
    LET L == 0..MaxPayload IN
    CASE t \in {0, 3, 7, 27} -> {Cks}
      [] t = 2  -> {QueryBody(sv, <<116>>, P(n)) : sv \in StatusVarRegions, n \in L}
      [] t = 4  -> {<<4, 0, 0, 0, 0, 0, 0, 0>> \o P(n) \o Cks : n \in L}
      [] t = 5  -> {<<k>> \o <<11, 0, 0, 0, 0, 0, 0, 0>> \o Cks : k \in {0, 1, 2}}
      [] t = 6  -> {LoadBody(n) : n \in L}
      [] t \in {8, 9, 17} -> {<<7, 0, 0, 0>> \o P(n) \o Cks : n \in L}
      [] t \in {10, 11} -> {<<7, 0>> \o Cks}
      [] t = 12 -> {NewLoadBody(n) : n \in L}
      [] t = 13 -> {<<1, 2, 3, 4, 5, 6, 7, 8, 8, 7, 6, 5, 4, 3, 2, 1>> \o Cks}
      [] t = 14 -> {P(n) \o Cks : n \in L}
      [] t = 15 -> {FormatDescBody(n) : n \in L}
      [] t = 16 -> {<<11, 0, 0, 0, 0, 0, 0, 0>> \o Cks}
      [] t = 18 -> {<<3, 0, 0, 0, 0, 0, 0, 0, 1, 0, 0, 0, 0, 7, 0, 0, 0,
                      9, 0, 0, 0, 20, 0, 0, 0>> \o <<k>> \o Cks : k \in {0, 1, 2}}
      [] t = 19 -> {TableMapBody(cols) : cols \in {0, 1, 8, 9, 251}}
                    \cup {TableMapBodyWith(<<1, 2, 3, 4, 5, 6>>, 1)}
      [] t = 26 -> {<<k, 0>> \o <<n>> \o P(n) \o Cks : k \in {0, 1}, n \in L}
      [] t = 29 -> {<<n>> \o P(n) \o Cks : n \in L}
      [] t \in {30, 32} ->
            {RowsBody(cols, 1, n) : cols \in {1, 9}, n \in L}
            \cup {RowsBodyWith(id, 1, extra, 1, <<bits>>, 1, n) :
                     id \in TableIds, extra \in {<<>>, <<0, 1, 7>>}, bits \in {1, 255}, n \in L}
      [] t = 31 ->
            {RowsBody(cols, 2, n) : cols \in {1, 9}, n \in L}
            \cup {RowsBodyWith(id, 1, extra, 1, <<bits>>, 2, n) :
                     id \in TableIds, extra \in {<<>>, <<0, 1, 7>>}, bits \in {1, 255}, n \in L}
      [] t = 34 -> {<<1>> \o <<0, 0, 0, 0, 0, 0, 0, 0>> \o P(n)
                     \o <<0, 0, 0, 0, 0, 0, 0, 0, 1, 0, 0, 0, 0, 0, 0, 0>> \o Cks : n \in L}
      [] t = 35 -> {P(n) \o <<128, 0, 0, 0>> \o Cks : n \in L}

ValidRecords == UNION {{Rec(t, b) : b \in Bodies(t)} : t \in SupportedTypes}

\* records that may follow the first one in a stream
Followers == {Rec(16, <<11, 0, 0, 0, 0, 0, 0, 0>> \o Cks), Rec(3, Cks)}

RECURSIVE StreamsOf(_)
StreamsOf(n) ==
    IF n = 1 THEN ValidRecords
    ELSE LET S == StreamsOf(n - 1) IN S \cup {s \o f : s \in S, f \in Followers}

ValidStreams == StreamsOf(MaxRecords)

\* type codes Event::parse has no decoder for
UnsupportedTypes == {1, 20, 21, 25, 28, 33, 36, 255}

\* damaged records: no decoder for the type, a declared size below what the
\* body needs, a code outside its enumeration, a 0xff length prefix, a
\* terminator that is not NUL, a schema that is not UTF-8
DamagedStreams ==
    {Rec(t, Cks) : t \in UnsupportedTypes}
    \cup UNION {{RecSized(t, sz, b) : sz \in {0, 18, 20}, b \in Bodies(t)} :
                   t \in {3, 4, 8, 14, 16, 35}}
    \cup {Rec(5, <<3>> \o <<11, 0, 0, 0, 0, 0, 0, 0>> \o Cks),
          Rec(26, <<2, 0>> \o <<0>> \o Cks),
          Rec(19, <<109, 0, 0, 0, 0, 0>> \o <<1, 0>> \o <<1, 116, 0>> \o <<1, 117, 0>>
                  \o <<255>> \o Cks),
          Rec(19, <<109, 0, 0, 0, 0, 0>> \o <<1, 0>> \o <<1, 116, 1>> \o <<1, 117, 0>>
                  \o <<0>> \o <<0>> \o Cks),
          Rec(2, QueryBody(<<>>, <<255>>, P(1))),
          Rec(2, QueryBody(<<9, 9>>, <<116>>, P(1)))}
    \cup {Rec(18, <<3, 0, 0, 0, 0, 0, 0, 0, 1, 0, 0, 0, 0, 7, 0, 0, 0,
                    9, 0, 0, 0, 20, 0, 0, 0>> \o <<3>> \o Cks),
          Rec(5, <<255>> \o <<11, 0, 0, 0, 0, 0, 0, 0>> \o Cks),
          Rec(26, <<1, 1>> \o <<0>> \o Cks),
          Rec(2, QueryBody(<<0, 0, 0>>, <<116>>, P(1))),
          Rec(2, QueryBody(<<0, 0, 0, 0, 0, 9>>, <<116>>, P(1))),
          Rec(19, <<109, 0, 0, 0, 0, 0>> \o <<1, 0>> \o <<1, 116, 0>> \o <<1, 117, 7>>
                  \o <<0>> \o <<0>> \o Cks),
          \* a column count in a longer encoding than it needs, and one no input can hold
          Rec(19, <<109, 0, 0, 0, 0, 0>> \o <<1, 0>> \o <<1, 116, 0>> \o <<1, 117, 0>>
                  \o <<253, 10, 0, 0>> \o [k \in 1..10 |-> 3] \o <<0>> \o <<0, 0>> \o Cks),
          Rec(19, <<109, 0, 0, 0, 0, 0>> \o <<1, 0>> \o <<1, 116, 0>> \o <<1, 117, 0>>
                  \o <<254, 17, 0, 0, 0, 0, 0, 0, 0>> \o [k \in 1..17 |-> 3] \o <<0>>
                  \o <<0, 0, 0>> \o Cks),
          Rec(19, <<109, 0, 0, 0, 0, 0>> \o <<1, 0>> \o <<1, 116, 0>> \o <<1, 117, 0>>
                  \o <<254, 255, 255, 255, 255, 255, 255, 255, 255>> \o <<3>> \o <<0>>
                  \o <<0>> \o Cks)}

----------------------------------------------------------------------------
(* The decoder driven by a caller that walks one stream with one cursor *)

None == [tag |-> "none"]

Init ==
    /\ overflow_checks \in BOOLEAN
    /\ \/ stream \in DamagedStreams /\ well_formed = FALSE
       \/ stream \in ValidStreams /\ well_formed = TRUE
    /\ avail \in 0..Len(stream)
    /\ pos = 0
    /\ last = None
    /\ prev = 0
    /\ given = NoFields
    /\ callee = "none"

\* Event::parse on the buffered bytes from the cursor on; the cursor advances
\* to the returned remainder on success; a panic ends the process
Decode ==
    /\ last.tag # "Panic"
    /\ \E r \in {Event_parse(SubSeq(stream, pos + 1, avail))} :
       /\ last' = r
       /\ prev' = pos
       /\ pos' = IF r.tag = "Ok" THEN avail - Len(r.rest) ELSE pos
    /\ callee' = "Event::parse"
    /\ UNCHANGED <<overflow_checks, stream, avail, well_formed, given>>

Next == Decode

Spec == Init /\ [][Next]_vars

----------------------------------------------------------------------------
(* parse_lenenc_int applied to inputs of every prefix kind and length *)

LenencFirst == {0, 5, 250, 251, 252, 253, 254, 255}

TailByte(p, k) ==
    CASE p = 1 -> k
      [] p = 2 -> 255
      [] p = 3 -> 0
      [] p = 4 -> (k * 37 + 200) % 256

LenencInputs ==
    {<<>>, <<5>>, <<251, 0, 1>>, <<253, 1, 0, 0>>}
    \cup {<<b>> \o [k \in 1..n |-> TailByte(p, k)] :
            b \in LenencFirst, n \in 0..MaxTail, p \in 1..4}

InitLenenc ==
    /\ overflow_checks \in BOOLEAN
    /\ stream \in LenencInputs
    /\ well_formed = FALSE
    /\ avail = Len(stream)
    /\ pos = 0
    /\ last = None
    /\ prev = 0
    /\ given = NoFields
    /\ callee = "none"

LenencInt ==
    /\ callee = "none"
    /\ last' = parse_lenenc_int(stream)
    /\ callee' = "parse_lenenc_int"
    /\ UNCHANGED <<overflow_checks, stream, pos, avail, prev, well_formed, given>>

LenencStr ==
    /\ callee = "none"
    /\ last' = parse_lenenc_str(stream)
    /\ callee' = "parse_lenenc_str"
    /\ UNCHANGED <<overflow_checks, stream, pos, avail, prev, well_formed, given>>

NextLenenc == LenencInt \/ LenencStr

SpecLenenc == InitLenenc /\ [][NextLenenc]_vars

----------------------------------------------------------------------------
(* parse_header applied to headers written from chosen field values *)

MaxExtra == 1        \* bytes that follow the header in the input

FlagBitSets == {{}} \cup {{i} : i \in 0..15} \cup {0..9, 10..15, 0..15, {0, 9, 12}}

HeaderFields ==
    [ts : {0, 1593679068}, type : {0, 16, 255}, sid : {123, 66000},
     size : {0, 31, 70000}, log_pos : {839}, flagbits : FlagBitSets]

InitHeader ==
    /\ overflow_checks \in BOOLEAN
    /\ given \in HeaderFields
    /\ \E extra \in 0..MaxExtra : stream = HeaderBytes(given) \o P(extra)
    /\ well_formed = FALSE
    /\ avail \in 0..Len(stream)
    /\ pos = 0
    /\ last = None
    /\ prev = 0
    /\ callee = "none"

ParseHeader ==
    /\ callee = "none"
    /\ last' = parse_header(SubSeq(stream, 1, avail))
    /\ callee' = "parse_header"
    /\ UNCHANGED <<overflow_checks, stream, pos, avail, prev, well_formed, given>>

NextHeader == ParseHeader

SpecHeader == InitHeader /\ [][NextHeader]_vars

----------------------------------------------------------------------------
(* parse_half_row applied to the body of a rows event *)

FlagWords == {0, 1, 2, 4, 8, 14, 15, 16, 65520, 65535}

\* bodies of write-rows records: one column whose bitmap byte is 0x01 or 0xff
HalfRowInputs ==
    {RowsBodyWith(id, 1, extra, 1, <<bits>>, 1, n) :
        id \in TableIds, extra \in ExtraChains, bits \in {1, 255}, n \in 0..MaxPayload}
    \cup {RowsBodyWith(<<109, 0, 0, 0, 0, 0>>, w, <<>>, 9, <<255, 1>>, 1, 1) : w \in FlagWords}
    \cup {<<109, 0, 0, 0, 0, 0>> \o <<1, 0>> \o <<k, 0>> \o <<1>> \o <<255>> \o Cks : k \in {0, 1}}

InitRows ==
    /\ overflow_checks \in BOOLEAN
    /\ stream \in HalfRowInputs
    /\ well_formed = (Len(stream) >= 9 /\ stream[9] >= 2)
    /\ avail \in 0..Len(stream)
    /\ pos = 0
    /\ last = None
    /\ prev = 0
    /\ given = NoFields
    /\ callee = "none"

HalfRow ==
    /\ callee = "none"
    /\ last' = parse_half_row(SubSeq(stream, 1, avail))
    /\ callee' = "parse_half_row"
    /\ UNCHANGED <<overflow_checks, stream, pos, avail, prev, well_formed, given>>

NextRows == HalfRow

SpecRows == InitRows /\ [][NextRows]_vars

-----------------------------------------------------------------------------
(* The steps of parse_load and parse_new_load from the option-flags byte on, *)
(* applied to the tail of a load body written from chosen field values       *)

OptBytes == 0..15 \cup {16, 240, 255}

\* field-name length bytes: none, one name, and names whose lengths add up
\* to more than 255
FieldLengths == {<<>>, <<1>>, <<200, 100>>, <<255, 1>>, <<128, 128>>}

NameLengths == {1, 255}

LoadParams ==
    [opt : OptBytes, field_name_lengths : FieldLengths,
     table_name_length : NameLengths, schema_length : NameLengths]

\* a name of n bytes and its NUL
NulName(n) == [k \in 1..(n + 1) |-> IF k <= n THEN 97 ELSE 0]

RECURSIVE NulNames(_, _)
NulNames(lens, k) ==
    IF k > Len(lens) THEN <<>> ELSE NulName(lens[k]) \o NulNames(lens, k + 1)

\* what follows the option-flags and empty-flags bytes in a load body with
\* these values and an empty file name
FieldsBytes(g) ==
    g.field_name_lengths \o NulNames(g.field_name_lengths, 1)
    \o NulName(g.table_name_length) \o NulName(g.schema_length) \o Cks

LoadTail(g) == <<g.opt, 0>> \o FieldsBytes(g)

\* the header of the load record the tail belongs to
LoadHeader(g) ==
    parse_header(HeaderBytes(Fields(6, 19 + 23 + Len(LoadTail(g))))).val

InitLoad ==
    /\ overflow_checks \in BOOLEAN
    /\ given \in LoadParams
    /\ stream = LoadTail(given)
    /\ well_formed = TRUE
    /\ avail = Len(stream)
    /\ pos = 0
    /\ last = None
    /\ prev = 0
    /\ callee = "none"

LoadOptFlags ==
    /\ callee = "none"
    /\ last' = load_opt_flags(stream)
    /\ callee' = "parse_load::opt_flags"
    /\ UNCHANGED <<overflow_checks, stream, pos, avail, prev, well_formed, given>>

NewLoadOptFlags ==
    /\ callee = "none"
    /\ last' = new_load_opt_flags(stream)
    /\ callee' = "parse_new_load::opt_flags"
    /\ UNCHANGED <<overflow_checks, stream, pos, avail, prev, well_formed, given>>

TotalLen ==
    /\ callee = "none"
    /\ last' = total_len_u64(given.field_name_lengths, U32(Len(given.field_name_lengths)))
    /\ callee' = "total_len"
    /\ UNCHANGED <<overflow_checks, stream, pos, avail, prev, well_formed, given>>

\* table_name_length + 1 and schema_length + 1
NameWidths ==
    /\ callee = "none"
    /\ last' = Then(add1_u8(given.table_name_length), LAMBDA z1, tl :
                Then(add1_u8(given.schema_length), LAMBDA z2, sl :
                Ok(<<>>, <<tl, sl>>)))
    /\ callee' = "name_widths"
    /\ UNCHANGED <<overflow_checks, stream, pos, avail, prev, well_formed, given>>

ExtractManyFields ==
    /\ callee = "none"
    /\ last' = extract_many_fields(Drop(stream, 2), LoadHeader(given),
                                   U32(Len(given.field_name_lengths)),
                                   given.table_name_length, given.schema_length)
    /\ callee' = "extract_many_fields"
    /\ UNCHANGED <<overflow_checks, stream, pos, avail, prev, well_formed, given>>

NextLoad == LoadOptFlags \/ NewLoadOptFlags \/ TotalLen \/ NameWidths \/ ExtractManyFields

SpecLoad == InitLoad /\ [][NextLoad]_vars

----------------------------------------------------------------------------
(* The widths the rows-v2 decoders compute after parse_half_row: the bitmap  *)
(* bytes they take and the terms they subtract in the row-image length       *)

\* column counts in each encoding of a length-encoded integer: one byte,
\* 0xfc + 2, 0xfd + 3, 0xfe + 8 (2^32 - 7, 2^32 - 1, 2^32, 2^32 + 9, 2^64 - 1)
ColumnCountEncodings ==
    {<<1>>, <<9>>, <<250>>, <<252, 251, 0>>, <<252, 255, 255>>, <<253, 255, 255, 255>>,
     <<254, 249, 255, 255, 255, 0, 0, 0, 0>>, <<254, 255, 255, 255, 255, 0, 0, 0, 0>>,
     <<254, 0, 0, 0, 0, 1, 0, 0, 0>>, <<254, 9, 0, 0, 0, 1, 0, 0, 0>>,
     <<254, 255, 255, 255, 255, 255, 255, 255, 255>>}

\* extra_data_len with the extra data that follows it
ExtraRegions == {<<2, <<>>>>, <<5, <<0, 1, 7>>>>, <<65535, <<0, 1, 7>>>>}

WidthInputs ==
    {<<109, 0, 0, 0, 0, 0>> \o <<1, 0>> \o <<e[1] % 256, e[1] \div 256>> \o e[2]
       \o cc \o <<bits>> \o P(n) \o Cks :
        e \in ExtraRegions, cc \in ColumnCountEncodings, bits \in {1, 255},
        n \in 0..MaxPayload}

InitWidths ==
    /\ overflow_checks \in BOOLEAN
    /\ stream \in WidthInputs
    /\ well_formed = TRUE
    /\ avail = Len(stream)
    /\ pos = 0
    /\ last = None
    /\ prev = 0
    /\ given = NoFields
    /\ callee = "none"

\* parse_half_row, then (column_count + 7) / 8 as the bitmap take has it,
\* ((column_count as u32 + 7) / 8) [* 2] and extra_data_len as u32 - 2 as the
\* row-image length has them; images is 1 for write and delete, 2 for update
RowsWidths ==
    /\ callee = "none"
    /\ \E images \in {1, 2} :
         last' = Then(parse_half_row(SubSeq(stream, 1, avail)), LAMBDA i, h :
                 Then(mask_len_u64(h.column_count), LAMBDA z1, consumed :
                 Then(mask_len_u32(h.column_count, images), LAMBDA z2, subtracted :
                 Then(Sub(U32(h.extra_data_len), U32(2)), LAMBDA z3, extra :
                 Ok(i, [images |-> images, half |-> h, consumed |-> consumed,
                        subtracted |-> subtracted, extra |-> extra])))))
    /\ callee' = "rows_widths"
    /\ UNCHANGED <<overflow_checks, stream, pos, avail, prev, well_formed, given>>

NextWidths == RowsWidths

SpecWidths == InitWidths /\ [][NextWidths]_vars

----------------------------------------------------------------------------
(* Properties *)

\* the error names of the specification, as results of this decoder
InsufficientData == Err("Eof")
MalformedLength == Err("MalformedLength")
UnsupportedEventType == Err("UnsupportedEventType")

\* the slice the latest Event::parse call was given
CallInput == SubSeq(stream, prev + 1, avail)

\* the declared event_size of the record at the start of the stream
FirstRecordSize == WNat(SubSeq(stream, 10, 13))

\* C1: whatever the input bytes, Event::parse returns an event or an error
\* value; no call ends in a panic, failed assertion or unreachable path.
C1_NeverPanics == last.tag # "Panic"

\* C2: a header whose event_type has no decoder (0x01, 0x14..0x19, 0x1c, 0x21,
\* anything above 0x23) makes Event::parse return UnsupportedEventType.
C2_UnsupportedEventType ==
    (/\ callee = "Event::parse"
     /\ Len(CallInput) >= 19
     /\ CallInput[5] \notin SupportedTypes)
    => last = UnsupportedEventType

\* C3: decoding a proper prefix of a well-formed record (fewer bytes than its
\* declared event_size) yields InsufficientData, never an event or a crash.
C3_TruncatedIsInsufficientData ==
    (/\ callee = "Event::parse"
     /\ well_formed
     /\ prev = 0
     /\ avail < FirstRecordSize)
    => last = InsufficientData

\* the bytes a decoder reads before it sizes its trailing field, and the
\* least event_size for which that size is not negative
FixedBefore(t) ==
    CASE t = 4 -> 8
      [] t \in {8, 9, 17} -> 4
      [] t = 15 -> 57
      [] t = 34 -> 9
      [] t \in {14, 35} -> 0

TrailingMin(t) ==
    CASE t = 4 -> 19 + 8
      [] t \in {8, 9, 17} -> 19 + 4
      [] t = 14 -> 19
      [] t = 15 -> 19 + 57 + 1 + 4
      [] t = 34 -> 19 + 29
      [] t = 35 -> 19 + 4 + 4

\* C4: when event_size is too small for the subtraction that sizes the
\* trailing field (rotate, file data, user-var, format-description, GTID
\* events), the decoder returns MalformedLength.
C4_UnderflowIsMalformedLength ==
    (/\ callee = "Event::parse"
     /\ Len(CallInput) >= 19
     /\ CallInput[5] \in {4, 8, 9, 14, 15, 17, 34, 35}
     /\ Len(CallInput) >= 19 + FixedBefore(CallInput[5])
     /\ WSmall(SubSeq(CallInput, 10, 13))
     /\ WNat(SubSeq(CallInput, 10, 13)) < TrailingMin(CallInput[5]))
    => last = MalformedLength

\* C5: when Event::parse succeeds on a buffer that begins with a well-formed
\* record, the remainder begins exactly event_size bytes after the record's
\* first byte, so the cursor is on the next record boundary.
C5_CursorOnRecordBoundary ==
    (/\ callee = "Event::parse"
     /\ well_formed
     /\ Len(CallInput) >= 19
     /\ Len(CallInput) >= WNat(SubSeq(CallInput, 10, 13))
     /\ last.tag = "Ok")
    => (/\ WSmall(last.val.header.event_size)
        /\ (Len(CallInput) - Len(last.rest)) = WNat(last.val.header.event_size))

\* C7: parse_lenenc_int, given enough bytes for the prefix kind: a first byte
\* b < 0xfb is the value, 1 byte consumed; 0xfb/0xfc: the little-endian u16 of
\* the next 2 bytes, 3 consumed; 0xfd: the little-endian value of the next 3
\* bytes, 4 consumed; 0xfe: the little-endian u64 of the next 8 bytes, 9
\* consumed; the remainder is the input minus the consumed bytes.
C7_LenencIntDecodes ==
    (callee = "parse_lenenc_int" /\ Len(stream) >= 1) =>
        LET b == stream[1] IN
        /\ b < 251 =>
              /\ last.tag = "Ok"
              /\ last.rest = Drop(stream, 1)
              /\ Len(last.val) = 8 /\ WSmall(last.val) /\ WNat(last.val) = b
        /\ (b \in {251, 252} /\ Len(stream) >= 3) =>
              /\ last.tag = "Ok"
              /\ last.rest = Drop(stream, 3)
              /\ Len(last.val) = 8 /\ WSmall(last.val)
              /\ WNat(last.val) = stream[2] + 256 * stream[3]
        /\ (b = 253 /\ Len(stream) >= 4) =>
              /\ last.tag = "Ok"
              /\ last.rest = Drop(stream, 4)
              /\ Len(last.val) = 8 /\ WSmall(last.val)
              /\ WNat(last.val) = stream[2] + 256 * stream[3] + 65536 * stream[4]
        /\ (b = 254 /\ Len(stream) >= 9) =>
              /\ last.tag = "Ok"
              /\ last.rest = Drop(stream, 9)
              /\ last.val = [k \in 1..8 |-> stream[k + 1]]

\* a 0xfd prefix with three value bytes of which the third is not zero, decoded
C7_Witness ==
    /\ callee = "parse_lenenc_int"
    /\ Len(stream) >= 5
    /\ stream[1] = 253
    /\ stream[4] # 0
    /\ last.tag = "Ok"

\* C8: parse_lenenc_int (and parse_lenenc_str through it) on an input whose
\* first byte is 0xff returns the error MalformedLength.
C8_FFIsMalformedLength ==
    (/\ callee \in {"parse_lenenc_int", "parse_lenenc_str"}
     /\ Len(stream) >= 1
     /\ stream[1] = 255)
    => last = MalformedLength

FlagNames ==
    <<"in_use", "forced_rotate", "thread_specific", "suppress_use",
      "update_table_map_version", "artificial", "relay_log", "ignorable",
      "no_filter", "mts_isolate">>

\* C9: parse_header on at least 19 bytes succeeds, consumes exactly 19, gives
\* the five fields the header was written from (little-endian, in order) and
\* sets flag i of the ten to bit i of the flag word, whatever bits 10..15 are;
\* on fewer than 19 bytes it fails with InsufficientData.
C9_HeaderDecodes ==
    callee = "parse_header" =>
        IF avail >= 19
        THEN /\ last.tag = "Ok"
             /\ last.rest = SubSeq(stream, 20, avail)
             /\ last.val.timestamp = U32(given.ts)
             /\ last.val.event_type = given.type
             /\ last.val.server_id = U32(given.sid)
             /\ last.val.event_size = U32(given.size)
             /\ last.val.log_pos = U32(given.log_pos)
             /\ DOMAIN last.val.flags = {FlagNames[i] : i \in 1..10}
             /\ \A i \in 0..9 : last.val.flags[FlagNames[i + 1]] = (i \in given.flagbits)
        ELSE last = InsufficientData

\* a header with flag bits 9 and 12 set and a byte behind it, decoded
C9_Witness ==
    /\ callee = "parse_header"
    /\ avail = 20
    /\ given.flagbits = {0, 9, 12}
    /\ given.size = 70000
    /\ last.tag = "Ok"

\* C10: every Header carried by a successfully decoded Event has
\* event_size >= 19.
C10_EventSizeAtLeast19 ==
    (callee = "Event::parse" /\ last.tag = "Ok")
    => ~(WSmall(last.val.header.event_size) /\ WNat(last.val.header.event_size) < 19)

\* the error names of the specification that the claims below use
UnsupportedEnumValue == Err("UnsupportedEnumValue")
InvariantViolation == Err("InvariantViolation")

\* the latest call was Event::parse on a buffer holding a whole header of type t
CallOfType(t) ==
    /\ callee = "Event::parse"
    /\ Len(CallInput) >= 19
    /\ CallInput[5] = t

\* C11: a coded value outside its domain yields UnsupportedEnumValue: an
\* int-var subtype byte outside {0,1,2}, an execute-load-query dup-handling
\* byte outside {0,1,2}, an incident subtype word outside {0,1}.
C11_UnsupportedEnumValue ==
    /\ (CallOfType(5) /\ Len(CallInput) >= 20 /\ CallInput[20] \notin {0, 1, 2})
          => last = UnsupportedEnumValue
    /\ (CallOfType(18) /\ Len(CallInput) >= 19 + 26 /\ CallInput[19 + 26] \notin {0, 1, 2})
          => last = UnsupportedEnumValue
    /\ (CallOfType(26) /\ Len(CallInput) >= 21
          /\ CallInput[20] + 256 * CallInput[21] \notin {0, 1})
          => last = UnsupportedEnumValue

\* the status-variable region of the query record the latest call was given
StatusVarsLength == CallInput[31] + 256 * CallInput[32]
StatusVarRegion == SubSeq(CallInput, 33, 32 + StatusVarsLength)

\* C12: the query decoder reads tagged variables from the region of
\* status_vars_length bytes; when the variables that decode leave bytes of
\* the region unread, the decode fails with InvariantViolation.
C12_RegionRemainderIsInvariantViolation ==
    (/\ CallOfType(2)
     /\ Len(CallInput) >= 32
     /\ Len(CallInput) >= 32 + StatusVarsLength
     /\ Len(many0_status_var(StatusVarRegion).rest) # 0)
    => last = InvariantViolation

\* the latest call was Event::parse on a buffer that begins with a whole
\* well-formed record of type t
WholeRecordOfType(t) ==
    /\ CallOfType(t)
    /\ well_formed
    /\ Len(CallInput) >= WNat(SubSeq(CallInput, 10, 13))

\* the declared event_size of the record the latest call was given
CallRecordSize == WNat(SubSeq(CallInput, 10, 13))

\* the length the query text must have:
\* event_size - 19 - 4 - 4 - 1 - 2 - 2 - status_vars_length - schema_length - 1 - 4
QueryTextLen == CallRecordSize - 19 - 4 - 4 - 1 - 2 - 2 - StatusVarsLength - CallInput[28] - 1 - 4

\* C13: a well-formed query record decodes to slave_proxy_id, execution_time,
\* schema_length, error_code, status_vars_length, the status-variable region,
\* schema_length bytes of schema, one separator byte, a query text of exactly
\* event_size - 19 - 4 - 4 - 1 - 2 - 2 - status_vars_length - schema_length - 1 - 4
\* bytes and the 4-byte checksum; a buffer of exactly event_size bytes is used up.
C13_QueryLayout ==
    WholeRecordOfType(2) =>
        LET schema_at == 32 + StatusVarsLength
            text_at == schema_at + CallInput[28] + 1 IN
        /\ last.tag = "Ok"
        /\ last.val.type = "Query"
        /\ last.val.slave_proxy_id = SubSeq(CallInput, 20, 23)
        /\ last.val.execution_time = SubSeq(CallInput, 24, 27)
        /\ last.val.schema_length = CallInput[28]
        /\ last.val.error_code = CallInput[29] + 256 * CallInput[30]
        /\ last.val.status_vars_length = StatusVarsLength
        /\ last.val.status_vars = many0_status_var(StatusVarRegion).val
        /\ last.val.schema = SubSeq(CallInput, schema_at + 1, schema_at + CallInput[28])
        /\ last.val.query = extract_string(SubSeq(CallInput, text_at + 1, text_at + QueryTextLen))
        /\ last.val.checksum = SubSeq(CallInput, text_at + QueryTextLen + 1, text_at + QueryTextLen + 4)
        /\ text_at + QueryTextLen + 4 = CallRecordSize
        /\ Len(CallInput) - Len(last.rest) = CallRecordSize

\* a query record with status variables and a two-byte text, given as exactly
\* event_size bytes and decoded with nothing left
C13_Witness ==
    /\ WholeRecordOfType(2)
    /\ Len(CallInput) = CallRecordSize
    /\ StatusVarsLength > 0
    /\ QueryTextLen = 2
    /\ last.tag = "Ok"
    /\ last.rest = <<>>
    /\ Len(last.val.query) = 2

\* offsets, in the table-map record the latest call was given, of the byte
\* after the schema name and of the byte after the table name
SchemaTermAt == 29 + CallInput[28]
TableTermAt == SchemaTermAt + 2 + CallInput[SchemaTermAt + 1]

\* C14: in the table-map decoder a byte after the schema name or after the
\* table name that is not 0x00 makes the decode fail with InvariantViolation.
C14_TerminatorIsInvariantViolation ==
    /\ (/\ CallOfType(19)
        /\ Len(CallInput) >= 28
        /\ Len(CallInput) >= SchemaTermAt
        /\ CallInput[SchemaTermAt] # 0)
       => last = InvariantViolation
    /\ (/\ CallOfType(19)
        /\ Len(CallInput) >= 28
        /\ Len(CallInput) >= SchemaTermAt + 1
        /\ CallInput[SchemaTermAt] = 0
        /\ Len(CallInput) >= TableTermAt
        /\ CallInput[TableTermAt] # 0)
       => last = InvariantViolation

\* C15: in every decoded table-map event columns_type has exactly
\* column_count entries and null_bits has exactly ceil(column_count / 8) bytes.
C15_TableMapLengths ==
    (callee = "Event::parse" /\ last.tag = "Ok" /\ last.val.type = "TableMap") =>
        /\ WSmall(last.val.column_count)
        /\ Len(last.val.columns_type) = WNat(last.val.column_count)
        /\ Len(last.val.null_bits) = (WNat(last.val.column_count) + 7) \div 8

\* a decoded table map of 9 columns: two bytes of null bits
C15_Witness ==
    /\ callee = "Event::parse"
    /\ last.tag = "Ok"
    /\ last.val.type = "TableMap"
    /\ WNat(last.val.column_count) = 9
    /\ Len(last.val.null_bits) = 2

\* the bytes parse_half_row took as extra data: what it consumed less the
\* table id, the flags word, extra_data_len and the column count
ExtraDataConsumed == avail - Len(last.rest) - 6 - 2 - 2 - last.val.encode_len

\* C16: with extra_data_len = 2 no extra-data record is read, and with more
\* the records read take exactly extra_data_len - 2 bytes: the reader never
\* goes beyond that region.
C16_ExtraDataWithinRegion ==
    (callee = "parse_half_row" /\ last.tag = "Ok") =>
        /\ ExtraDataConsumed = last.val.extra_data_len - 2
        /\ (last.val.extra_data_len = 2 => last.val.extra_data = <<>>)

\* in the rows record the latest Event::parse call was given: extra_data_len,
\* the offset before the column count, the column count and its encoded
\* width, the bitmap length and the number of bitmaps
RowsExtraLen == CallInput[28] + 256 * CallInput[29]
RowsColAt == 29 + (RowsExtraLen - 2)
RowsColWidth == IF CallInput[RowsColAt + 1] < 251 THEN 1 ELSE 3
RowsColCount ==
    IF CallInput[RowsColAt + 1] < 251 THEN CallInput[RowsColAt + 1]
    ELSE CallInput[RowsColAt + 2] + 256 * CallInput[RowsColAt + 3]
RowsMaskLen == (RowsColCount + 7) \div 8
RowsImages == IF CallInput[5] = 31 THEN 2 ELSE 1

\* event_size - 19 - 6 - 2 - 2 - (extra_data_len - 2) - (encoded width of
\* column_count) - bitmap bytes (x1 or x2) - 4
RowsImageLen ==
    CallRecordSize - 19 - 6 - 2 - 2 - (RowsExtraLen - 2) - RowsColWidth
    - RowsMaskLen * RowsImages - 4

\* C17: a well-formed write, update or delete rows-v2 record decodes to one
\* presence bitmap of ceil(column_count/8) bytes (two for update), a row image
\* of exactly RowsImageLen bytes and the 4-byte checksum, and a buffer of
\* exactly event_size bytes is used up.
C17_RowsLayout ==
    (\E t \in {30, 31, 32} : WholeRecordOfType(t)) =>
        LET bits_at == RowsColAt + RowsColWidth
            rows_at == bits_at + RowsMaskLen * RowsImages IN
        /\ last.tag = "Ok"
        /\ last.val.column_count = U64(RowsColCount)
        /\ IF CallInput[5] = 30
             THEN last.val.inserted_image_bits = SubSeq(CallInput, bits_at + 1, bits_at + RowsMaskLen)
           ELSE IF CallInput[5] = 32
             THEN last.val.deleted_image_bits = SubSeq(CallInput, bits_at + 1, bits_at + RowsMaskLen)
           ELSE /\ last.val.before_image_bits = SubSeq(CallInput, bits_at + 1, bits_at + RowsMaskLen)
                /\ last.val.after_image_bits =
                      SubSeq(CallInput, bits_at + RowsMaskLen + 1, bits_at + 2 * RowsMaskLen)
        /\ last.val.rows = SubSeq(CallInput, rows_at + 1, rows_at + RowsImageLen)
        /\ last.val.checksum = SubSeq(CallInput, rows_at + RowsImageLen + 1, rows_at + RowsImageLen + 4)
        /\ Len(CallInput) - Len(last.rest) = CallRecordSize

\* the 16-bit flags word of the rows body parse_half_row was given
RowsFlagWord == stream[7] + 256 * stream[8]

\* the four decoded booleans in bit order
RowsFlagAt(f, k) ==
    CASE k = 0 -> f.end_of_stmt
      [] k = 1 -> f.foreign_key_checks
      [] k = 2 -> f.unique_key_checks
      [] k = 3 -> f.has_columns

\* C18: the four booleans of Rows::Flags are decoded from bits 0..3 of the
\* flags word, exactly two of them with inverted polarity (true when the bit
\* is 0) and the other two true when their bit is 1; bits 4..15 do not
\* affect the result.
C18_TwoFlagsInverted ==
    (callee = "parse_half_row" /\ last.tag = "Ok") =>
        /\ \E inverted \in SUBSET (0..3) :
              /\ Cardinality(inverted) = 2
              /\ \A k \in 0..3 :
                    RowsFlagAt(last.val.flags, k)
                        = (((RowsFlagWord \div (2 ^ k)) % 2 = 1) # (k \in inverted))
        /\ last.val.flags = rows_Flags(RowsFlagWord % 16)

\* C18 as the decoder has it: end_of_stmt is true when bit 0 is 1;
\* foreign_key_checks, unique_key_checks and has_columns are all three of
\* inverted polarity, true when bits 1, 2 and 3 are 0; bits 4..15 do not
\* affect the result.
C18_ThreeFlagsInverted ==
    (callee = "parse_half_row" /\ last.tag = "Ok") =>
        /\ last.val.flags.end_of_stmt = ((RowsFlagWord \div 1) % 2 = 1)
        /\ last.val.flags.foreign_key_checks = ((RowsFlagWord \div 2) % 2 = 0)
        /\ last.val.flags.unique_key_checks = ((RowsFlagWord \div 4) % 2 = 0)
        /\ last.val.flags.has_columns = ((RowsFlagWord \div 8) % 2 = 0)
        /\ \A w \in FlagWords :
              w % 16 = RowsFlagWord % 16 => rows_Flags(w) = last.val.flags

\* a rows body whose flags word has every bit set has been decoded
C18_Witness ==
    /\ callee = "parse_half_row"
    /\ last.tag = "Ok"
    /\ RowsFlagWord = 65535
    /\ last.val.flags = [end_of_stmt |-> TRUE, foreign_key_checks |-> FALSE,
                         unique_key_checks |-> FALSE, has_columns |-> FALSE]

\* C19: a well-formed load (6) or new-load (12) record given as exactly
\* event_size bytes decodes successfully and no byte remains; the table and
\* schema names come from the bytes after the field-name region and the file
\* name is everything before the 4-byte checksum.
C19_LoadDecodes ==
    (\E t \in {6, 12} : WholeRecordOfType(t) /\ Len(CallInput) = CallRecordSize) =>
        /\ last.tag = "Ok"
        /\ last.rest = <<>>
        /\ last.val.checksum = SubSeq(CallInput, CallRecordSize - 3, CallRecordSize)

\* C20: in every successfully decoded table-map (19), write-rows (30),
\* update-rows (31) and delete-rows (32) event, table_id is the little-endian
\* value of the first 6 body bytes, its two upper bytes are zero, and exactly
\* 6 bytes are consumed for it: the flags word is read from the two bytes
\* that follow.
C20_TableIdSixBytes ==
    ((\E t \in {19, 30, 31, 32} : CallOfType(t)) /\ last.tag = "Ok") =>
        /\ last.val.table_id = SubSeq(CallInput, 20, 25) \o <<0, 0>>
        /\ last.val.table_id[7] = 0 /\ last.val.table_id[8] = 0
        /\ last.val.flags =
              IF CallInput[5] = 19 THEN CallInput[26] + 256 * CallInput[27]
              ELSE rows_Flags(CallInput[26] + 256 * CallInput[27])

\* a rows or table-map event whose table id has six non-zero bytes has
\* been decoded
C20_Witness ==
    /\ \E t \in {19, 30, 31, 32} : CallOfType(t)
    /\ last.tag = "Ok"
    /\ SubSeq(CallInput, 20, 25) = <<1, 2, 3, 4, 5, 6>>
    /\ last.val.table_id = <<1, 2, 3, 4, 5, 6, 0, 0>>

\* the option-flags byte the load steps were given
OptByte == stream[1]

\* C21: parse_load and parse_new_load decode the option-flags byte the same
\* way: dump_file, opt_enclosed, replace and ignore are bits 0, 1, 2 and 3 of
\* the byte in both decoders.
C21_OptFlagsAreBits ==
    (callee \in {"parse_load::opt_flags", "parse_new_load::opt_flags"}) =>
        /\ last.tag = "Ok"
        /\ last.val = [dump_file    |-> Bit(OptByte, 0),
                       opt_enclosed |-> Bit(OptByte, 1),
                       replace      |-> Bit(OptByte, 2),
                       ignore       |-> Bit(OptByte, 3)]

\* the integer sum of the length bytes
RECURSIVE TrueSum(_, _)
TrueSum(lens, k) == IF k > Len(lens) THEN 0 ELSE lens[k] + TrueSum(lens, k + 1)

\* C22: in extract_many_fields the width of the field-name region is the
\* integer sum of the field-name length bytes plus num_fields, and the
\* widths of the table name and the schema name are their length + 1, also
\* when the sum exceeds 255 or a name length is 255: no 8-bit wraparound and
\* no overflow.
C22_WidthsAreExact ==
    /\ callee = "total_len" =>
          last = Ok(<<>>, U64(TrueSum(given.field_name_lengths, 1)
                              + Len(given.field_name_lengths)))
    /\ callee = "name_widths" =>
          last = Ok(<<>>, <<given.table_name_length + 1, given.schema_length + 1>>)
    /\ callee = "extract_many_fields" =>
          ~(last.tag = "Panic" /\ last.msg = "attempt to add with overflow")

\* C23: in the rows-v2 decoders the presence-bitmap bytes consumed, computed
\* from the 64-bit column_count (once for write and delete, twice for
\* update), equal the bitmap bytes subtracted in the row-image length,
\* computed from column_count narrowed to 32 bits, for every column_count a
\* length-encoded integer carries; and the extra-data term of that length is
\* extra_data_len - 2, neither narrowed nor wrapped below zero.
C23_BitmapWidthsAgree ==
    (callee = "rows_widths" /\ last.tag = "Ok") =>
        /\ WCast(last.val.subtracted, 8) =
              IF last.val.images = 1 THEN last.val.consumed
              ELSE WrappingAdd(last.val.consumed, last.val.consumed).val
        /\ last.val.half.extra_data_len >= 2
        /\ last.val.extra = U32(last.val.half.extra_data_len - 2)

====
